---- MODULE Spec2Model ----
(***************************************************************************)
(* Model of the compositor core of rust_os: the window stack               *)
(* (src/src/window_manager.rs, struct WindowManager and struct Window),    *)
(* the animation engine (src/src/animations.rs), the notification queue    *)
(* (src/src/notifications.rs), the search overlay (src/src/spotlight.rs),  *)
(* Mission Control (src/src/mission_control.rs), the Desktop that owns     *)
(* them (src/src/desktop.rs) and the main loop (src/src/main.rs).  Each    *)
(* component has its own specification; the variables of the components    *)
(* it does not use stay None in it.                                        *)
(*                                                                         *)
(* Rust indices are 0-based; TLA+ sequences are 1-based, so window i of    *)
(* the Vec is windows[i + 1].  Option<usize> is a sequence of length 0      *)
(* (None) or 1 (Some(i)).                                                  *)
(***************************************************************************)
EXTENDS Integers, Sequences, FiniteSets, TLC

\* ---------------------------------------------------------------- bounds
\* The stack holds at most MaxWindows windows in the model.
MaxWindows == 2
\* add_window is called at most MaxAdds times (caps next_window_id).
MaxAdds == 3

\* --------------------------------------------------------------- Option
None == <<>>

Some(i) == <<i>>

\* ------------------------------------------------ program constants
\* maximize_window's rectangle
MAX_X == 0

MAX_Y == 24

MAX_WIDTH == 640

MAX_HEIGHT == 456

\* ------------------------------------------------------------- inputs
\* Window::new: the three flags start false.
Window_new(title, x, y, width, height) ==
    [title |-> title, x |-> x, y |-> y, width |-> width, height |-> height,
     is_focused |-> FALSE, is_minimized |-> FALSE, is_maximized |-> FALSE]

\* Windows a caller hands to add_window: the first two sample windows of
\* create_sample_windows (their rectangles overlap); the caller may have set
\* is_focused before the call, as create_sample_windows does for Finder.
NewWindows ==
    LET fresh == { Window_new("Finder", 80, 80, 500, 350),
                   Window_new("Terminal", 200, 120, 450, 300) }
    IN  { [w EXCEPT !.is_focused = f] : w \in fresh, f \in BOOLEAN }

\* Index arguments: every valid index and one past the largest stack.
Indices == 0 .. MaxWindows

\* Points handed to get_window_at_point: in Finder only, in both sample
\* windows, in Terminal only, just past Terminal's far corner, and on the
\* corners of the maximized rectangle (inside and just outside).
Points == { <<100, 100>>, <<300, 200>>, <<600, 400>>, <<650, 420>>,
            <<0, 24>>, <<639, 479>>, <<640, 24>> }

VARIABLES
    windows,          \* WindowManager.windows : Vec<Window>
    focused_window,   \* WindowManager.focused_window : Option<usize>
    next_window_id,   \* WindowManager.next_window_id : usize
    panicked,         \* TRUE once an operation has panicked (index out of bounds)
    last,             \* the last call: its name, arguments and result
    old,              \* the object of the last call as it was when the call began
    animation,        \* an Animation
    window_animation, \* a WindowAnimation
    notifications,    \* NotificationCenter.notifications : Vec<Notification>
    spotlight,        \* a Spotlight
    calls,            \* how many update() calls the object has received
    mission_control,  \* a MissionControl
    desktop,          \* the Desktop's own fields: time_counter, show_about_dialog
    pc,               \* the position of _start in main.rs
    log               \* the calls made by the current iteration of the main loop

vars == <<windows, focused_window, next_window_id, panicked, last, old,
          animation, window_animation, notifications, spotlight, calls,
          mission_control, desktop, pc, log>>

\* The variables of the window stack, and all the others.
wmVars == <<windows, focused_window, next_window_id, panicked>>

\* The variables of the shell around the components.
shellVars == <<mission_control, desktop, pc, log>>

nonWmVars == <<animation, window_animation, notifications, spotlight, calls,
               mission_control, desktop, pc, log>>

\* No shell has been constructed.
NoShell ==
    /\ mission_control = None
    /\ desktop = None
    /\ pc = None
    /\ log = None

\* The WindowManager as one value, for the operators below.
Self == [windows |-> windows, focused_window |-> focused_window,
         next_window_id |-> next_window_id, panicked |-> panicked]

\* ------------------------------------------------------------ Vec helpers
\* Vec::get(i) is Some iff i < len
InRange(ws, i) == i >= 0 /\ i < Len(ws)

\* Vec::remove(index): panics when index is out of bounds; otherwise the
\* elements after index shift down by one.
Vec_remove(ws, index) ==
    IF index >= Len(ws)
    THEN [panic |-> TRUE, vec |-> ws]
    ELSE [panic |-> FALSE,
          vec |-> [k \in 1 .. (Len(ws) - 1) |->
                      IF k < index + 1 THEN ws[k] ELSE ws[k + 1]]]

\* -------------------------------------------------------- WindowManager
\* WindowManager::new
WindowManager_new ==
    [windows |-> <<>>, focused_window |-> None, next_window_id |-> 0,
     panicked |-> FALSE]

\* add_window without the assignment to window.is_focused
add_window_keeps_flag(self, window) ==
    [self EXCEPT
       !.windows = Append(self.windows, window),
       !.focused_window =
           IF self.focused_window = None THEN Some(0) ELSE self.focused_window,
       !.next_window_id = self.next_window_id + 1]

\* WindowManager::add_window
add_window(self, window) ==
    LET w == [window EXCEPT !.is_focused = (self.windows = <<>>)]
    IN  [self EXCEPT
           !.windows = Append(self.windows, w),
           !.focused_window =
               IF self.focused_window = None THEN Some(0) ELSE self.focused_window,
           !.next_window_id = self.next_window_id + 1]

\* focus_window without the bounds check
focus_window_unchecked(self, index) ==
    [self EXCEPT !.focused_window = Some(index)]

\* WindowManager::focus_window
focus_window(self, index) ==
    IF index < Len(self.windows)
    THEN [self EXCEPT !.focused_window = Some(index)]
    ELSE self

\* close_window leaving the focus index alone when a lower window goes
close_window_keeps_index(self, index) ==
    IF index < Len(self.windows)
    THEN LET r == Vec_remove(self.windows, index)
             ws == r.vec
             removed == [self EXCEPT !.windows = ws,
                                     !.panicked = self.panicked \/ r.panic]
         IN  IF r.panic THEN removed
             ELSE IF self.focused_window # None /\ self.focused_window[1] = index
             THEN [removed EXCEPT !.focused_window =
                     IF ws = <<>> THEN None
                     ELSE IF index > 0 THEN Some(index - 1)
                     ELSE Some(0)]
             ELSE removed
    ELSE self

\* WindowManager::close_window
close_window(self, index) ==
    IF index < Len(self.windows)
    THEN LET r == Vec_remove(self.windows, index)
             ws == r.vec
             removed == [self EXCEPT !.windows = ws,
                                     !.panicked = self.panicked \/ r.panic]
         IN  IF r.panic THEN removed
             ELSE IF self.focused_window # None
             THEN LET focused == self.focused_window[1]
                  IN  IF focused = index
                      THEN [removed EXCEPT !.focused_window =
                              IF ws = <<>> THEN None
                              ELSE IF index > 0 THEN Some(index - 1)
                              ELSE Some(0)]
                      ELSE IF focused > index
                      THEN [removed EXCEPT !.focused_window = Some(focused - 1)]
                      ELSE removed
             ELSE removed
    ELSE self

\* focus_next_window without the is_minimized test: the first window wins
focus_next_window_first(self) ==
    IF self.windows = <<>>
    THEN [self EXCEPT !.focused_window = None]
    ELSE [self EXCEPT !.focused_window = Some(0)]

\* WindowManager::focus_next_window
focus_next_window(self) ==
    IF self.windows = <<>>
    THEN [self EXCEPT !.focused_window = None]
    ELSE LET open == { i \in 0 .. (Len(self.windows) - 1) :
                         ~self.windows[i + 1].is_minimized }
         IN  IF open # {}
             THEN [self EXCEPT !.focused_window =
                     Some(CHOOSE i \in open : \A j \in open : i <= j)]
             ELSE [self EXCEPT !.focused_window = None]

\* minimize_window that empties the focus instead of handing it over
minimize_window_drops_focus(self, index) ==
    IF InRange(self.windows, index)
    THEN LET s1 == [self EXCEPT !.windows[index + 1].is_minimized = TRUE]
         IN  IF Some(index) = self.focused_window
             THEN [s1 EXCEPT !.focused_window = None]
             ELSE s1
    ELSE self

\* WindowManager::minimize_window
minimize_window(self, index) ==
    IF InRange(self.windows, index)
    THEN LET s1 == [self EXCEPT !.windows[index + 1].is_minimized = TRUE]
         IN  IF Some(index) = self.focused_window
             THEN focus_next_window(s1)
             ELSE s1
    ELSE self

\* maximize_window that sets is_maximized instead of negating it
maximize_window_sets(self, index) ==
    IF InRange(self.windows, index)
    THEN [self EXCEPT !.windows[index + 1].is_maximized = TRUE,
                      !.windows[index + 1].x = MAX_X,
                      !.windows[index + 1].y = MAX_Y,
                      !.windows[index + 1].width = MAX_WIDTH,
                      !.windows[index + 1].height = MAX_HEIGHT]
    ELSE self

\* WindowManager::maximize_window
maximize_window(self, index) ==
    IF InRange(self.windows, index)
    THEN LET s1 == [self EXCEPT !.windows[index + 1].is_maximized = ~@]
         IN  IF s1.windows[index + 1].is_maximized
             THEN [s1 EXCEPT !.windows[index + 1].x = MAX_X,
                             !.windows[index + 1].y = MAX_Y,
                             !.windows[index + 1].width = MAX_WIDTH,
                             !.windows[index + 1].height = MAX_HEIGHT]
             ELSE s1
    ELSE self

\* Window::draw: a minimized window returns before drawing anything.
\* The result is what the call emits: the window's index, or nothing.
Window_draw(ws, i) ==
    IF ws[i + 1].is_minimized THEN <<>> ELSE <<i>>

\* draw_all's first loop setting is_focused without ever clearing it
draw_all_flags_sticky(self) ==
    [self EXCEPT !.windows =
        [k \in 1 .. Len(self.windows) |->
            [self.windows[k] EXCEPT !.is_focused =
                (@ \/ Some(k - 1) = self.focused_window)]]]

\* draw_all, first loop: is_focused of every window is recomputed.
draw_all_flags(self) ==
    [self EXCEPT !.windows =
        [k \in 1 .. Len(self.windows) |->
            [self.windows[k] EXCEPT !.is_focused = (Some(k - 1) = self.focused_window)]]]

\* draw_all, second loop: the unfocused windows, in index order, from index i.
RECURSIVE draw_unfocused(_, _)
draw_unfocused(self, i) ==
    IF i >= Len(self.windows) THEN <<>>
    ELSE (IF Some(i) # self.focused_window THEN Window_draw(self.windows, i) ELSE <<>>)
         \o draw_unfocused(self, i + 1)

\* draw_all, last step: the focused window, if the index names one.
draw_focused(self) ==
    IF self.focused_window # None /\ InRange(self.windows, self.focused_window[1])
    THEN Window_draw(self.windows, self.focused_window[1])
    ELSE <<>>

\* draw_all drawing the focused window before the others
draw_all_focused_first(self) ==
    LET s1 == draw_all_flags(self)
    IN  [self |-> s1, emitted |-> draw_focused(s1) \o draw_unfocused(s1, 0)]

\* WindowManager::draw_all: the state after the call and the emitted draws.
draw_all(self) ==
    LET s1 == draw_all_flags(self)
    IN  [self |-> s1, emitted |-> draw_unfocused(s1, 0) \o draw_focused(s1)]

\* get_window_at_point, scanning from index i down to 0.
RECURSIVE hit_from(_, _, _, _)
hit_from(ws, i, x, y) ==
    IF i < 0 THEN None
    ELSE LET window == ws[i + 1]
         IN  IF ~window.is_minimized
                /\ x >= window.x /\ x < window.x + window.width
                /\ y >= window.y /\ y < window.y + window.height
             THEN Some(i)
             ELSE hit_from(ws, i - 1, x, y)

\* get_window_at_point scanning from index i up (the .rev() forgotten)
RECURSIVE hit_up(_, _, _, _)
hit_up(ws, i, x, y) ==
    IF i >= Len(ws) THEN None
    ELSE LET window == ws[i + 1]
         IN  IF ~window.is_minimized
                /\ x >= window.x /\ x < window.x + window.width
                /\ y >= window.y /\ y < window.y + window.height
             THEN Some(i)
             ELSE hit_up(ws, i + 1, x, y)

get_window_at_point_forward(self, x, y) == hit_up(self.windows, 0, x, y)

\* WindowManager::get_window_at_point
get_window_at_point(self, x, y) == hit_from(self.windows, Len(self.windows) - 1, x, y)

\* ------------------------------------------------------------- actions
Store(s) ==
    /\ windows' = s.windows
    /\ focused_window' = s.focused_window
    /\ next_window_id' = s.next_window_id
    /\ panicked' = s.panicked
    /\ old' = Self
    /\ UNCHANGED nonWmVars

Call(op, args, ret) == [op |-> op, args |-> args, ret |-> ret]

Init ==
    /\ NoShell
    /\ windows = WindowManager_new.windows
    /\ focused_window = WindowManager_new.focused_window
    /\ next_window_id = WindowManager_new.next_window_id
    /\ panicked = WindowManager_new.panicked
    /\ last = Call("new", <<>>, <<>>)
    /\ old = WindowManager_new
    /\ animation = None
    /\ window_animation = None
    /\ notifications = None
    /\ spotlight = None
    /\ calls = 0

AddWindow ==
    /\ ~panicked
    /\ Len(windows) < MaxWindows
    /\ next_window_id < MaxAdds
    /\ \E w \in NewWindows :
         /\ Store(add_window(Self, w))
         /\ last' = Call("add_window", <<w>>, <<>>)

FocusWindow ==
    /\ ~panicked
    /\ \E i \in Indices :
         /\ Store(focus_window(Self, i))
         /\ last' = Call("focus_window", <<i>>, <<>>)

CloseWindow ==
    /\ ~panicked
    /\ \E i \in Indices :
         /\ Store(close_window(Self, i))
         /\ last' = Call("close_window", <<i>>, <<>>)

MinimizeWindow ==
    /\ ~panicked
    /\ \E i \in Indices :
         /\ Store(minimize_window(Self, i))
         /\ last' = Call("minimize_window", <<i>>, <<>>)

MaximizeWindow ==
    /\ ~panicked
    /\ \E i \in Indices :
         /\ Store(maximize_window(Self, i))
         /\ last' = Call("maximize_window", <<i>>, <<>>)

DrawAll ==
    /\ ~panicked
    /\ LET r == draw_all(Self)
       IN  /\ Store(r.self)
           /\ last' = Call("draw_all", <<>>, r.emitted)

GetWindowAtPoint ==
    /\ ~panicked
    /\ \E p \in Points :
         /\ last' = Call("get_window_at_point", p, get_window_at_point(Self, p[1], p[2]))
         /\ Store(Self)

Next ==
    \/ AddWindow
    \/ FocusWindow
    \/ CloseWindow
    \/ MinimizeWindow
    \/ MaximizeWindow
    \/ DrawAll
    \/ GetWindowAtPoint

Spec == Init /\ [][Next]_vars

\* ================================================================ claims
\* The index argument of the last call (focus, close, minimize, maximize).
Arg == last.args[1]

IndexOps == {"focus_window", "close_window", "minimize_window", "maximize_window"}

\* Indices of the windows of ws that are not minimized.
Open(ws) == { i \in 0 .. (Len(ws) - 1) : ~ws[i + 1].is_minimized }

SetMin(S) == CHOOSE i \in S : \A j \in S : i <= j

SetMax(S) == CHOOSE i \in S : \A j \in S : i >= j

\* The rectangle [x, x+width) x [y, y+height) of w contains (px, py).
Contains(w, px, py) ==
    /\ px >= w.x /\ px < w.x + w.width
    /\ py >= w.y /\ py < w.y + w.height

\* How often v occurs in the sequence e.
Occurrences(e, v) == Cardinality({ k \in 1 .. Len(e) : e[k] = v })

\* C1: in every reachable state focused_window is None, or a valid index
\* whose window is not minimized.
C1_FocusedValidNotMinimized ==
    \/ focused_window = None
    \/ /\ focused_window[1] < Len(windows)
       /\ ~windows[focused_window[1] + 1].is_minimized

\* C2: close_window(i) of the focused index i: with more than one window the
\* focus becomes i-1 (or 0 when i = 0) and the newly focused window is not
\* minimized; closing the only window clears the focus.
C2_CloseFocusedRefocus ==
    (last.op = "close_window" /\ Arg < Len(old.windows)
        /\ old.focused_window = Some(Arg))
    => IF Len(old.windows) > 1
       THEN /\ focused_window = Some(IF Arg > 0 THEN Arg - 1 ELSE 0)
            /\ ~windows[focused_window[1] + 1].is_minimized
       ELSE focused_window = None

\* focused_window designates index 0, the first window's is_focused is true
\* and every later window's is_focused is false.
OnlyFirstFocused(s) ==
    /\ s.windows # <<>>
    /\ s.focused_window = Some(0)
    /\ s.windows[1].is_focused
    /\ \A k \in 2 .. Len(s.windows) : ~s.windows[k].is_focused

\* C3: consecutive add_window calls from an empty manager keep the first
\* window focused: an add_window on an empty stack yields focus index 0 with
\* only the first is_focused flag set, and an add_window on a stack in that
\* condition leaves it in that condition.
C3_ConsecutiveAddsFocusFirst ==
    (last.op = "add_window" /\ (old.windows = <<>> \/ OnlyFirstFocused(old)))
    => OnlyFirstFocused(Self)

\* Two add_window calls in a row on a new manager (nothing closed, nothing
\* minimized), the second one handed a window whose is_focused was set.
C3_Witness ==
    /\ last.op = "add_window"
    /\ Len(windows) = 2 /\ next_window_id = 2
    /\ Open(windows) = {0, 1}
    /\ last.args[1].is_focused
    /\ OnlyFirstFocused(old)
    /\ OnlyFirstFocused(Self)

\* C4: add_window(w) appends w on top; the new window is the focused one iff
\* the stack was empty; on a non-empty stack focused_window is unchanged and
\* no window is given focus.
C4_AddFocusesIffEmpty ==
    last.op = "add_window"
    => LET n == Len(old.windows)
           w == last.args[1]
       IN  /\ Len(windows) = n + 1
           /\ SubSeq(windows, 1, n) = old.windows
           /\ [windows[n + 1] EXCEPT !.is_focused = w.is_focused] = w
           /\ IF n = 0
              THEN focused_window = Some(0) /\ windows[1].is_focused
              ELSE /\ focused_window = old.focused_window
                   /\ ~windows[n + 1].is_focused

\* C5: at most one window has is_focused set.
C5_AtMostOneFocusedFlag ==
    Cardinality({ k \in 1 .. Len(windows) : windows[k].is_focused }) <= 1

\* draw_all has just moved the flag from window 0 to the focused window 1.
C5_Witness ==
    /\ last.op = "draw_all"
    /\ Len(windows) = 2
    /\ old.windows[1].is_focused /\ ~old.windows[2].is_focused
    /\ windows[2].is_focused

C7_HitTestTopmost ==
    last.op = "get_window_at_point"
    => LET hits == { i \in Open(windows) :
                       Contains(windows[i + 1], last.args[1], last.args[2]) }
       IN  last.ret = IF hits = {} THEN None ELSE Some(SetMax(hits))

\* The point lies in both windows; the upper one is minimized, so the
\* lower one is returned.
C7_Witness ==
    /\ last.op = "get_window_at_point"
    /\ Len(windows) = 2
    /\ Contains(windows[1], last.args[1], last.args[2])
    /\ Contains(windows[2], last.args[1], last.args[2])
    /\ windows[2].is_minimized
    /\ last.ret = Some(0)

C9_BothToggle ==
    /\ (last.op = "minimize_window" /\ Arg < Len(old.windows))
       => minimize_window(Self, Arg).windows[Arg + 1].is_minimized
            = old.windows[Arg + 1].is_minimized
    /\ (last.op = "maximize_window" /\ Arg < Len(old.windows))
       => maximize_window(Self, Arg).windows[Arg + 1].is_maximized
            = old.windows[Arg + 1].is_maximized

\* C9 amended: maximize_window negates is_maximized, so two calls return it
\* to its original value; minimize_window sets is_minimized, which is true
\* after one call and after two.
C9_MaximizeTogglesMinimizeSets ==
    /\ (last.op = "maximize_window" /\ Arg < Len(old.windows))
       => /\ windows[Arg + 1].is_maximized = ~old.windows[Arg + 1].is_maximized
          /\ maximize_window(Self, Arg).windows[Arg + 1].is_maximized
               = old.windows[Arg + 1].is_maximized
    /\ (last.op = "minimize_window" /\ Arg < Len(old.windows))
       => /\ windows[Arg + 1].is_minimized
          /\ minimize_window(Self, Arg).windows[Arg + 1].is_minimized

\* maximize_window called on a maximized window: the flag is off again.
C9_Witness ==
    /\ last.op = "maximize_window"
    /\ Arg < Len(old.windows)
    /\ old.windows[Arg + 1].is_maximized
    /\ ~windows[Arg + 1].is_maximized

\* C10: focus_window, close_window, minimize_window and maximize_window with
\* an index >= the number of windows change nothing and do not panic.
C10_InvalidIndexNoOp ==
    (last.op \in IndexOps /\ Arg >= Len(old.windows))
    => /\ Self = old
       /\ ~panicked

\* focus_window called with index 2 on a stack of two windows.
C10_Witness ==
    /\ last.op = "focus_window"
    /\ Len(old.windows) = 2
    /\ Arg = 2

\* ============================================================ animations
\* f32 values are modelled as exact fractions <<numerator, denominator>> in
\* lowest terms with a positive denominator (rounding to 24 bits is left
\* out); a division by zero yields NaN.
NaN == <<0, 0>>

RECURSIVE GCD(_, _)
GCD(a, b) == IF b = 0 THEN a ELSE GCD(b, a % b)

Abs(n) == IF n < 0 THEN -n ELSE n

Rat(n, d) ==
    IF d = 0 THEN NaN
    ELSE LET g == GCD(Abs(n), Abs(d))
             sgn == IF d < 0 THEN -1 ELSE 1
         IN  <<sgn * (n \div g), sgn * (d \div g)>>

\* an integer (or a literal such as 640.0) as f32
F(n) == <<n, 1>>

RatAdd(a, b) == IF a = NaN \/ b = NaN THEN NaN
                ELSE Rat(a[1] * b[2] + b[1] * a[2], a[2] * b[2])

RatSub(a, b) == IF a = NaN \/ b = NaN THEN NaN
                ELSE Rat(a[1] * b[2] - b[1] * a[2], a[2] * b[2])

RatMul(a, b) == IF a = NaN \/ b = NaN THEN NaN
                ELSE Rat(a[1] * b[1], a[2] * b[2])

RatDiv(a, b) == IF a = NaN \/ b = NaN THEN NaN
                ELSE Rat(a[1] * b[2], a[2] * b[1])

\* a < b (false when either is NaN)
RatLess(a, b) == a # NaN /\ b # NaN /\ a[1] * b[2] < b[1] * a[2]

\* enum EasingType
EasingType == {"EaseInOut", "EaseIn", "EaseOut", "Linear"}

\* ---------------------------------------------------------------- bounds
\* Animations of the model last at most MaxDuration ticks.
MaxDuration == 3
\* An animation (or compound animation) receives at most MaxTicks update() calls.
MaxTicks == 5

\* Animation::new
Animation_new(start, end, duration, easing) ==
    [start_value |-> start, end_value |-> end, duration |-> duration,
     current_time |-> 0, easing |-> easing, is_complete |-> FALSE]

\* The match on self.easing in Animation::update
Ease(easing, t) ==
    CASE easing = "Linear" -> t
      [] easing = "EaseIn" -> RatMul(t, t)
      [] easing = "EaseOut" ->
            RatSub(F(1), RatMul(RatSub(F(1), t), RatSub(F(1), t)))
      [] easing = "EaseInOut" ->
            IF RatLess(t, Rat(1, 2))
            THEN RatMul(F(2), RatMul(t, t))
            ELSE RatSub(F(1), RatMul(F(2), RatMul(RatSub(F(1), t), RatSub(F(1), t))))

\* Animation::update with > in place of >= in the completion test
Animation_update_late(self) ==
    IF self.is_complete
    THEN [self |-> self, ret |-> self.end_value]
    ELSE LET s1 == [self EXCEPT !.current_time = @ + 1]
         IN  IF s1.current_time > s1.duration
             THEN [self |-> [s1 EXCEPT !.is_complete = TRUE], ret |-> s1.end_value]
             ELSE LET t == RatDiv(F(s1.current_time), F(s1.duration))
                      progress == Ease(s1.easing, t)
                  IN  [self |-> s1,
                       ret |-> RatAdd(s1.start_value,
                                 RatMul(RatSub(s1.end_value, s1.start_value), progress))]

\* Animation::update without the early return of a completed animation
Animation_update_no_latch(self) ==
    LET s1 == [self EXCEPT !.current_time = @ + 1]
    IN  IF s1.current_time >= s1.duration
        THEN [self |-> [s1 EXCEPT !.is_complete = TRUE], ret |-> s1.end_value]
        ELSE LET t == RatDiv(F(s1.current_time), F(s1.duration))
                 progress == Ease(s1.easing, t)
             IN  [self |-> s1,
                  ret |-> RatAdd(s1.start_value,
                            RatMul(RatSub(s1.end_value, s1.start_value), progress))]

\* Animation::update: the animation after the call and the value returned
Animation_update(self) ==
    IF self.is_complete
    THEN [self |-> self, ret |-> self.end_value]
    ELSE LET s1 == [self EXCEPT !.current_time = @ + 1]
         IN  IF s1.current_time >= s1.duration
             THEN [self |-> [s1 EXCEPT !.is_complete = TRUE], ret |-> s1.end_value]
             ELSE LET t == RatDiv(F(s1.current_time), F(s1.duration))
                      progress == Ease(s1.easing, t)
                  IN  [self |-> s1,
                       ret |-> RatAdd(s1.start_value,
                                 RatMul(RatSub(s1.end_value, s1.start_value), progress))]

\* Arguments of Animation::new: the slide-in of a notification (640 -> 320)
\* and the fade-in of spring_open (0 -> 1), every easing, durations from 0.
AnimationInputs ==
    { Animation_new(v[1], v[2], d, e) :
        v \in { <<F(640), F(320)>>, <<F(0), F(1)>> },
        d \in 0 .. MaxDuration,
        e \in EasingType }

\* No window stack is in use: the variables hold WindowManager::new().
NoWindowManager ==
    /\ windows = WindowManager_new.windows
    /\ focused_window = WindowManager_new.focused_window
    /\ next_window_id = WindowManager_new.next_window_id
    /\ panicked = WindowManager_new.panicked

InitAnim ==
    /\ NoShell
    /\ animation \in AnimationInputs
    /\ calls = 0
    /\ last = Call("Animation::new", <<>>, <<>>)
    /\ old = animation
    /\ NoWindowManager
    /\ window_animation = None
    /\ notifications = None
    /\ spotlight = None

AnimationUpdate ==
    /\ calls < MaxTicks
    /\ LET r == Animation_update(animation)
       IN  /\ animation' = r.self
           /\ last' = Call("Animation::update", <<>>, r.ret)
    /\ old' = animation
    /\ calls' = calls + 1
    /\ UNCHANGED <<shellVars, wmVars, window_animation, notifications, spotlight>>

NextAnim == AnimationUpdate

SpecAnim == InitAnim /\ [][NextAnim]_vars

\* C11: the n-th update() of an animation of duration d, for n >= max(d, 1),
\* returns exactly end_value (never the NaN of a division by a zero
\* duration) and leaves is_complete true.
C11_UpdateReachesEnd ==
    (last.op = "Animation::update"
        /\ calls >= (IF animation.duration > 1 THEN animation.duration ELSE 1))
    => /\ last.ret = animation.end_value
       /\ animation.is_complete

\* The first update() of a zero-duration animation.
C11_Witness ==
    /\ last.op = "Animation::update"
    /\ animation.duration = 0
    /\ calls = 1
    /\ ~old.is_complete
    /\ animation.is_complete
    /\ last.ret = animation.end_value

\* C12: update() of a completed animation changes nothing (current_time and
\* is_complete included, so the flag is never cleared) and returns end_value.
C12_CompleteIsLatched ==
    (last.op = "Animation::update" /\ old.is_complete)
    => /\ animation = old
       /\ animation.is_complete
       /\ last.ret = animation.end_value

\* update() called on an animation of duration 2 that had completed.
C12_Witness ==
    /\ last.op = "Animation::update"
    /\ old.is_complete
    /\ animation.duration = 2
    /\ calls = 3
    /\ animation.current_time = 2

\* C13: current_time never exceeds duration.
C13_ElapsedWithinDuration ==
    animation # None => animation.current_time <= animation.duration

\* ------------------------------------------------------ WindowAnimation
\* A compound animation receives at most MaxCompoundTicks update() calls.
MaxCompoundTicks == 31

Members == {"x", "y", "width", "height", "alpha"}

\* WindowAnimation::minimize_to_dock
minimize_to_dock(start_x, start_y, start_w, start_h, dock_x, dock_y) ==
    [x |-> Animation_new(start_x, dock_x, 30, "EaseInOut"),
     y |-> Animation_new(start_y, dock_y, 30, "EaseInOut"),
     width |-> Animation_new(start_w, F(64), 30, "EaseInOut"),
     height |-> Animation_new(start_h, F(64), 30, "EaseInOut"),
     alpha |-> Animation_new(F(1), Rat(8, 10), 30, "EaseOut")]

\* WindowAnimation::spring_open
spring_open(start_x, start_y, end_w, end_h) ==
    [x |-> Animation_new(start_x, start_x, 20, "EaseOut"),
     y |-> Animation_new(start_y, start_y, 20, "EaseOut"),
     width |-> Animation_new(F(0), end_w, 20, "EaseOut"),
     height |-> Animation_new(F(0), end_h, 20, "EaseOut"),
     alpha |-> Animation_new(F(0), F(1), 20, "EaseOut")]

\* WindowAnimation::update: the compound after the call and the five values
WindowAnimation_update(self) ==
    [self |-> [m \in Members |-> Animation_update(self[m]).self],
     ret |-> << Animation_update(self.x).ret, Animation_update(self.y).ret,
                Animation_update(self.width).ret, Animation_update(self.height).ret,
                Animation_update(self.alpha).ret >>]

\* WindowAnimation::is_complete
WindowAnimation_is_complete(self) ==
    /\ self.x.is_complete /\ self.y.is_complete
    /\ self.width.is_complete /\ self.height.is_complete

\* The compound animations of the model: the two constructors applied to the
\* Finder window, and compounds written as struct literals (the fields are
\* pub) whose members have durations of their own.
WindowAnimationInputs ==
    { minimize_to_dock(F(80), F(80), F(500), F(350), F(300), F(420)),
      spring_open(F(80), F(80), F(500), F(350)) }
    \cup
    { [m \in Members |-> Animation_new(F(0), F(1), d[m], "EaseOut")] :
        d \in [Members -> 0 .. MaxDuration] }

InitWinAnim ==
    /\ NoShell
    /\ window_animation \in WindowAnimationInputs
    /\ calls = 0
    /\ last = Call("WindowAnimation", <<>>, <<>>)
    /\ old = window_animation
    /\ NoWindowManager
    /\ animation = None
    /\ notifications = None
    /\ spotlight = None

WindowAnimationUpdate ==
    /\ calls < MaxCompoundTicks
    /\ LET r == WindowAnimation_update(window_animation)
       IN  /\ window_animation' = r.self
           /\ last' = Call("WindowAnimation::update", <<>>, r.ret)
    /\ old' = window_animation
    /\ calls' = calls + 1
    /\ UNCHANGED <<shellVars, wmVars, animation, notifications, spotlight>>

WindowAnimationIsComplete ==
    /\ last' = Call("WindowAnimation::is_complete", <<>>,
                    <<WindowAnimation_is_complete(window_animation)>>)
    /\ old' = window_animation
    /\ UNCHANGED <<shellVars, wmVars, animation, window_animation, notifications, spotlight, calls>>

NextWinAnim ==
    \/ WindowAnimationUpdate
    \/ WindowAnimationIsComplete

SpecWinAnim == InitWinAnim /\ [][NextWinAnim]_vars

\* C14: is_complete() returns true exactly when all five members (x, y,
\* width, height and alpha) have their completion flag set.
C14_CompleteIsConjunction ==
    last.op = "WindowAnimation::is_complete"
    => last.ret = << \A m \in Members : window_animation[m].is_complete >>

\* ========================================================= notifications
\* Notification::new: lifetime, and the slide-in animation's duration
NOTIFICATION_LIFETIME == 300

SLIDE_IN_DURATION == 30

\* show_notification: vertical spacing of the stack
STACK_SPACING == 90

\* ---------------------------------------------------------------- bounds
\* The queue holds at most MaxQueue notifications in the model.
MaxQueue == 3
\* NotificationCenter::update is called at most MaxQueueTicks times.
MaxQueueTicks == 603

\* Notification::new
Notification_new(title, message) ==
    [title |-> title, message |-> message,
     x |-> F(640), y |-> F(50), width |-> F(300), height |-> F(80),
     animation |-> Animation_new(F(640), F(320), SLIDE_IN_DURATION, "EaseOut"),
     lifetime |-> NOTIFICATION_LIFETIME, age |-> 0]

\* Notification::update
Notification_update(self) ==
    LET r == Animation_update(self.animation)
    IN  [self EXCEPT !.x = r.ret, !.animation = r.self, !.age = @ + 1]

\* is_expired with >= in place of >
is_expired_at_lifetime(self) == self.age >= self.lifetime

\* Notification::is_expired
is_expired(self) == self.age > self.lifetime

\* show_notification taking the offset from the length after the push
show_notification_counts_itself(self, title, message) ==
    LET notification == Notification_new(title, message)
        stack_offset == RatMul(F(Len(self) + 1), F(STACK_SPACING))
    IN  Append(self,
               [notification EXCEPT
                  !.y = RatAdd(@, stack_offset),
                  !.animation = Animation_new(F(640), F(320), SLIDE_IN_DURATION, "EaseOut")])

\* NotificationCenter::show_notification (self is the Vec of notifications)
show_notification(self, title, message) ==
    LET notification == Notification_new(title, message)
        stack_offset == RatMul(F(Len(self)), F(STACK_SPACING))
    IN  Append(self,
               [notification EXCEPT
                  !.y = RatAdd(@, stack_offset),
                  !.animation = Animation_new(F(640), F(320), SLIDE_IN_DURATION, "EaseOut")])


\* update that slides the survivors of a removal in again
NotificationCenter_update_reanimates(self) ==
    LET updated == [k \in 1 .. Len(self) |-> Notification_update(self[k])]
        kept == SelectSeq(updated, LAMBDA n : ~is_expired(n))
    IN  IF Len(kept) = Len(updated)
        THEN kept
        ELSE [k \in 1 .. Len(kept) |->
                [kept[k] EXCEPT !.animation =
                    Animation_new(F(640), F(320), SLIDE_IN_DURATION, "EaseOut")]]

\* NotificationCenter::update with retain() before the loop that ages
NotificationCenter_update_retain_first(self) ==
    LET kept == SelectSeq(self, LAMBDA n : ~is_expired(n))
    IN  [k \in 1 .. Len(kept) |-> Notification_update(kept[k])]

\* NotificationCenter::update
NotificationCenter_update(self) ==
    LET updated == [k \in 1 .. Len(self) |-> Notification_update(self[k])]
    IN  SelectSeq(updated, LAMBDA n : ~is_expired(n))

\* NotificationCenter::draw: the notifications rendered, in queue order
NotificationCenter_draw(self) == self

\* The texts of the two notifications of Desktop::init
NotificationTexts ==
    { <<"Welcome to RustOS", "macOS-inspired operating system">>,
      <<"System Ready", "All services loaded successfully">> }

\* The caller calls show_notification after this many update() calls: at
\* the start, one tick later, when the first notifications are one tick
\* from expiry, and right after they expired.
ShowTicks == {0, 1, NOTIFICATION_LIFETIME, NOTIFICATION_LIFETIME + 1}

InitNotif ==
    /\ NoShell
    /\ notifications = <<>>
    /\ calls = 0
    /\ last = Call("NotificationCenter::new", <<>>, <<>>)
    /\ old = <<>>
    /\ NoWindowManager
    /\ animation = None
    /\ window_animation = None
    /\ spotlight = None

ShowNotification ==
    /\ calls \in ShowTicks
    /\ Len(notifications) < MaxQueue
    /\ \E t \in NotificationTexts :
         /\ notifications' = show_notification(notifications, t[1], t[2])
         /\ last' = Call("show_notification", t, <<>>)
    /\ old' = notifications
    /\ UNCHANGED <<shellVars, wmVars, animation, window_animation, spotlight, calls>>

NotificationUpdate ==
    /\ calls < MaxQueueTicks
    /\ notifications' = NotificationCenter_update(notifications)
    /\ last' = Call("NotificationCenter::update", <<>>, <<>>)
    /\ old' = notifications
    /\ calls' = calls + 1
    /\ UNCHANGED <<shellVars, wmVars, animation, window_animation, spotlight>>

NotificationDraw ==
    /\ last' = Call("NotificationCenter::draw", <<>>, NotificationCenter_draw(notifications))
    /\ old' = notifications
    /\ UNCHANGED <<shellVars, wmVars, animation, window_animation, notifications, spotlight, calls>>

NextNotif ==
    \/ ShowNotification
    \/ NotificationUpdate
    \/ NotificationDraw

SpecNotif == InitNotif /\ [][NextNotif]_vars

\* The notifications of a queue whose age is still below their lifetime:
\* the ones the next update() keeps.
NotYetDue(q) == SelectSeq(q, LAMBDA n : n.age < n.lifetime)

\* q is the queue kept after one update() of the queue `before`: the same
\* notifications in the same order, each one tick older and at the same
\* vertical offset.
AgedSurvivors(q, before) ==
    /\ Len(q) = Len(NotYetDue(before))
    /\ \A j \in 1 .. Len(q) :
         LET n == NotYetDue(before)[j]
         IN  /\ q[j].title = n.title /\ q[j].message = n.message
             /\ q[j].y = n.y
             /\ q[j].age = n.age + 1

\* C15: show_notification on a queue of k notifications appends one with
\* y = 50 + 90k, age 0 and a fresh slide-in animation, and changes no
\* notification already queued.
C15_ShowAppendsAtOffset ==
    last.op = "show_notification"
    => LET k == Len(old)
       IN  /\ Len(notifications) = k + 1
           /\ SubSeq(notifications, 1, k) = old
           /\ notifications[k + 1].title = last.args[1]
           /\ notifications[k + 1].message = last.args[2]
           /\ notifications[k + 1].y = F(50 + 90 * k)
           /\ notifications[k + 1].age = 0
           /\ notifications[k + 1].animation =
                Animation_new(F(640), F(320), 30, "EaseOut")

\* show_notification on a queue holding one notification that has aged.
C15_Witness ==
    /\ last.op = "show_notification"
    /\ Len(old) = 1
    /\ old[1].age = 1
    /\ notifications[2].y = F(140)

\* C16 as claimed: an update() keeps every notification that has received
\* fewer than 300 updates and removes the ones receiving their 301st; an
\* update() that removes a notification shortens the queue by exactly one;
\* the others keep their vertical offset.
C16_ExpiryRemovesExactlyOne ==
    last.op = "NotificationCenter::update"
    => /\ \A k \in 1 .. Len(old) : old[k].age <= NOTIFICATION_LIFETIME
       /\ AgedSurvivors(notifications, old)
       /\ (Len(NotYetDue(old)) < Len(old) => Len(notifications) = Len(old) - 1)

\* C16 amended: the update() removes every notification receiving its 301st
\* update, so the queue shrinks by the number of notifications of that age.
C16_ExpiryRemovesAllDue ==
    last.op = "NotificationCenter::update"
    => /\ \A k \in 1 .. Len(old) : old[k].age <= NOTIFICATION_LIFETIME
       /\ AgedSurvivors(notifications, old)
       /\ Len(notifications) = Len(old)
            - Cardinality({ k \in 1 .. Len(old) : old[k].age = NOTIFICATION_LIFETIME })

\* The 301st update() of the first notification: it is removed, the second
\* one, enqueued a tick later, stays at its offset of 140.
C16_Witness ==
    /\ last.op = "NotificationCenter::update"
    /\ calls = NOTIFICATION_LIFETIME + 1
    /\ Len(old) = 2
    /\ old[1].age = NOTIFICATION_LIFETIME /\ old[1].y = F(50)
    /\ Len(notifications) = 1
    /\ notifications[1].y = F(140)
    /\ notifications[1].age = NOTIFICATION_LIFETIME

\* C17: every update() ages each notification it keeps by exactly one; the
\* queue never holds a notification older than its lifetime, and draw()
\* renders no expired notification.
C17_AgeStepsAndNoExpired ==
    /\ \A k \in 1 .. Len(notifications) :
         notifications[k].age <= notifications[k].lifetime
    /\ last.op = "NotificationCenter::update" => AgedSurvivors(notifications, old)
    /\ last.op = "NotificationCenter::draw"
       => \A k \in 1 .. Len(last.ret) : ~is_expired(last.ret[k])

\* draw() right after the update() that pruned the first notification.
C17_Witness ==
    /\ last.op = "NotificationCenter::draw"
    /\ calls = NOTIFICATION_LIFETIME + 1
    /\ Len(last.ret) = 1
    /\ last.ret[1].age = NOTIFICATION_LIFETIME
    /\ last.ret[1].y = F(140)

(***************************************************************************)
(* Spotlight (spotlight.rs).  A String is the sequence of its characters.  *)
(***************************************************************************)

\* The largest number of add_character/backspace calls between two show().
MaxEdits == 3

\* The characters typed into the search field.
QueryChars == {"t", "e", "r", "T", "f", "p"}

\* The direction arguments of move_selection.
Directions == -2 .. 2

Str_Terminal == <<"T", "e", "r", "m", "i", "n", "a", "l">>
Str_Finder == <<"F", "i", "n", "d", "e", "r">>
Str_SystemPreferences ==
    <<"S", "y", "s", "t", "e", "m", " ",
      "P", "r", "e", "f", "e", "r", "e", "n", "c", "e", "s">>

Str_terminal == <<"t", "e", "r", "m", "i", "n", "a", "l">>
Str_finder == <<"f", "i", "n", "d", "e", "r">>
Str_system == <<"s", "y", "s", "t", "e", "m">>
Str_preferences == <<"p", "r", "e", "f", "e", "r", "e", "n", "c", "e", "s">>

Result_Terminal == [title |-> Str_Terminal, subtitle |-> "Utilities", icon |-> "computer"]
Result_Finder == [title |-> Str_Finder, subtitle |-> "System", icon |-> "folder"]
Result_SystemPreferences ==
    [title |-> Str_SystemPreferences, subtitle |-> "System", icon |-> "gear"]

\* char::to_lowercase on the letters that occur
char_to_lowercase(c) ==
    CASE c = "T" -> "t"
      [] c = "F" -> "f"
      [] c = "S" -> "s"
      [] c = "P" -> "p"
      [] OTHER -> c

\* str::to_lowercase
to_lowercase(str) == [k \in 1 .. Len(str) |-> char_to_lowercase(str[k])]

\* str::starts_with
starts_with(str, prefix) ==
    /\ Len(prefix) <= Len(str)
    /\ SubSeq(str, 1, Len(prefix)) = prefix

\* Spotlight::new
Spotlight_new ==
    [is_visible |-> FALSE, search_query |-> <<>>, results |-> <<>>,
     selected_index |-> 0, x |-> 120, y |-> 100, width |-> 400, height |-> 300]

\* update_results that pushes the three entries whatever the query is
update_results_ignores_query(self) ==
    [self EXCEPT !.results =
                    <<Result_Terminal, Result_Finder, Result_SystemPreferences>>,
                 !.selected_index = 0]

\* Spotlight::update_results
update_results(self) ==
    LET query_lower == to_lowercase(self.search_query)
        matches ==
            IF self.search_query = <<>>
            THEN <<Result_Terminal, Result_Finder, Result_SystemPreferences>>
            ELSE (IF starts_with(Str_terminal, query_lower)
                  THEN <<Result_Terminal>> ELSE <<>>)
                 \o (IF starts_with(Str_finder, query_lower)
                     THEN <<Result_Finder>> ELSE <<>>)
                 \o (IF \/ starts_with(Str_system, query_lower)
                        \/ starts_with(Str_preferences, query_lower)
                     THEN <<Result_SystemPreferences>> ELSE <<>>)
    IN  [self EXCEPT !.results = matches, !.selected_index = 0]

\* Spotlight::show
Spotlight_show(self) ==
    update_results([self EXCEPT !.is_visible = TRUE, !.search_query = <<>>])

\* hide that also resets the query, as show does
Spotlight_hide_resets(self) ==
    update_results([self EXCEPT !.is_visible = FALSE, !.search_query = <<>>])

\* Spotlight::hide
Spotlight_hide(self) == [self EXCEPT !.is_visible = FALSE]

\* Spotlight::add_character
add_character(self, ch) ==
    update_results([self EXCEPT !.search_query = Append(@, ch)])

\* Spotlight::backspace; String::pop on an empty string removes nothing
backspace(self) ==
    update_results([self EXCEPT !.search_query =
                      IF @ = <<>> THEN <<>> ELSE SubSeq(@, 1, Len(@) - 1)])

\* move_selection that steps forward without the modulo
move_selection_no_wrap(self, direction) ==
    IF self.results = <<>>
    THEN self
    ELSE IF direction > 0
         THEN [self EXCEPT !.selected_index = @ + 1]
         ELSE IF direction < 0
              THEN [self EXCEPT !.selected_index =
                      IF @ = 0 THEN Len(self.results) - 1 ELSE @ - 1]
              ELSE self

\* Spotlight::move_selection
move_selection(self, direction) ==
    IF self.results = <<>>
    THEN self
    ELSE IF direction > 0
         THEN [self EXCEPT !.selected_index = (@ + 1) % Len(self.results)]
         ELSE IF direction < 0
              THEN [self EXCEPT !.selected_index =
                      IF @ = 0 THEN Len(self.results) - 1 ELSE @ - 1]
              ELSE self

\* Spotlight::new(); calls counts the edits of the query since the last show()
InitSpot ==
    /\ NoShell
    /\ NoWindowManager
    /\ animation = None
    /\ window_animation = None
    /\ notifications = None
    /\ spotlight = Spotlight_new
    /\ calls = 0
    /\ last = Call("Spotlight::new", <<>>, <<>>)
    /\ old = Spotlight_new

SpotlightShow ==
    /\ spotlight # None
    /\ spotlight' = Spotlight_show(spotlight)
    /\ calls' = 0
    /\ last' = Call("show", <<>>, <<>>)
    /\ old' = spotlight
    /\ UNCHANGED <<shellVars, wmVars, animation, window_animation, notifications>>

SpotlightHide ==
    /\ spotlight # None
    /\ spotlight' = Spotlight_hide(spotlight)
    /\ last' = Call("hide", <<>>, <<>>)
    /\ old' = spotlight
    /\ UNCHANGED <<shellVars, wmVars, animation, window_animation, notifications, calls>>

AddCharacter ==
    /\ spotlight # None
    /\ calls < MaxEdits
    /\ \E ch \in QueryChars :
         /\ spotlight' = add_character(spotlight, ch)
         /\ last' = Call("add_character", <<ch>>, <<>>)
    /\ calls' = calls + 1
    /\ old' = spotlight
    /\ UNCHANGED <<shellVars, wmVars, animation, window_animation, notifications>>

Backspace ==
    /\ spotlight # None
    /\ calls < MaxEdits
    /\ spotlight' = backspace(spotlight)
    /\ last' = Call("backspace", <<>>, <<>>)
    /\ calls' = calls + 1
    /\ old' = spotlight
    /\ UNCHANGED <<shellVars, wmVars, animation, window_animation, notifications>>

MoveSelection ==
    /\ spotlight # None
    /\ \E direction \in Directions :
         /\ spotlight' = move_selection(spotlight, direction)
         /\ last' = Call("move_selection", <<direction>>, <<>>)
    /\ old' = spotlight
    /\ UNCHANGED <<shellVars, wmVars, animation, window_animation, notifications, calls>>

NextSpot ==
    \/ SpotlightShow
    \/ SpotlightHide
    \/ AddCharacter
    \/ Backspace
    \/ MoveSelection

SpecSpot == InitSpot /\ [][NextSpot]_vars

\* The catalog, in the order in which update_results pushes its entries.
Catalog == <<Result_Terminal, Result_Finder, Result_SystemPreferences>>

\* The catalog entries whose lower-cased title starts with the lower-cased
\* query, in catalog order.
TitlePrefixMatches(query) ==
    SelectSeq(Catalog,
              LAMBDA r : starts_with(to_lowercase(r.title), to_lowercase(query)))

\* C18: after every show(), add_character(ch) or backspace() the results are
\* exactly the catalog entries whose lower-cased title starts with the
\* lower-cased query, in catalog order, and selected_index is 0.
C18_ResultsAreTitlePrefixMatches ==
    last.op \in {"show", "add_character", "backspace"}
    => /\ spotlight.results = TitlePrefixMatches(spotlight.search_query)
       /\ spotlight.selected_index = 0

\* C19: after show() and add_character of 't', 'e', 'r' the results are
\* exactly [Terminal] with selected_index 0, and move_selection(+1) and
\* move_selection(-1) on that list leave selected_index at 0.
C19_TerFindsTerminalOnly ==
    /\ ( /\ last.op = "add_character"
         /\ calls = 3
         /\ spotlight.search_query = <<"t", "e", "r">> )
       => /\ spotlight.results = <<Result_Terminal>>
          /\ spotlight.selected_index = 0
    /\ ( /\ last.op = "move_selection"
         /\ last.args[1] \in {1, -1}
         /\ old.results = <<Result_Terminal>> )
       => /\ spotlight.selected_index = 0
          /\ spotlight.results = <<Result_Terminal>>

\* move_selection(-1) on the list found for "ter", typed after show().
C19_Witness ==
    /\ last.op = "move_selection"
    /\ last.args = <<-1>>
    /\ calls = 3
    /\ old.is_visible
    /\ old.search_query = <<"t", "e", "r">>
    /\ old.results = <<Result_Terminal>>
    /\ spotlight.selected_index = 0

\* C20: with n > 0 results move_selection(+1) sets selected_index to
\* (selected_index + 1) mod n and move_selection(-1) to
\* (selected_index - 1) mod n, so selected_index stays below n; with no
\* results, or with direction 0, move_selection changes nothing.
C20_SelectionWrapsModulo ==
    /\ spotlight.results # <<>> => spotlight.selected_index < Len(spotlight.results)
    /\ last.op = "move_selection"
       => LET n == Len(old.results)
              direction == last.args[1]
          IN  /\ (n > 0 /\ direction = 1)
                 => spotlight =
                      [old EXCEPT !.selected_index = (@ + 1) % n]
              /\ (n > 0 /\ direction = -1)
                 => spotlight =
                      [old EXCEPT !.selected_index = (@ + n - 1) % n]
              /\ (n = 0 \/ direction = 0) => spotlight = old

\* move_selection(+1) from the last of three results wraps to the first.
C20_Witness ==
    /\ last.op = "move_selection"
    /\ last.args = <<1>>
    /\ Len(old.results) = 3
    /\ old.selected_index = 2
    /\ spotlight.selected_index = 0

\* C21: show() makes the overlay visible, empties the query and recomputes
\* the results (the whole catalog, selected_index 0); hide() clears
\* is_visible and changes nothing else.
C21_ShowResetsHideKeeps ==
    /\ last.op = "show"
       => spotlight = [old EXCEPT !.is_visible = TRUE,
                                  !.search_query = <<>>,
                                  !.results = Catalog,
                                  !.selected_index = 0]
    /\ last.op = "hide" => spotlight = [old EXCEPT !.is_visible = FALSE]

\* hide() of a visible overlay holding the query "t" and its one result.
C21_Witness ==
    /\ last.op = "hide"
    /\ old.is_visible
    /\ ~spotlight.is_visible
    /\ spotlight.search_query = <<"t">>
    /\ spotlight.results = <<Result_Terminal>>

(***************************************************************************)
(* Mission Control (mission_control.rs).  animation_progress is an f32 in  *)
(* [0, 1.05]: every f32 in that range from 0.05 upwards is a multiple of   *)
(* 2^-28, so the value is kept as its number of 2^-28 units and a sum is   *)
(* rounded to 24 significant bits, to nearest, ties to even.               *)
(***************************************************************************)

\* The largest number of update() calls after one show().
MaxProgressTicks == 21

\* 1.0 as an f32, in units of 2^-28
F32_ONE == 268435456

\* 0.05 as an f32 (0.0500000007450580596923828125), in units of 2^-28
F32_STEP == 13421773

\* 2^24: an f32 has 24 significant bits
F32_SIGNIFICAND == 16777216

\* The unit in the last place of the f32 nearest to n units, from ulp u up.
RECURSIVE f32_ulp(_, _)
f32_ulp(n, u) == IF n < F32_SIGNIFICAND * u THEN u ELSE f32_ulp(n, 2 * u)

\* Rounding of an exact value of n units to an f32.
f32_round(n) ==
    LET u == f32_ulp(n, 1)
        q == n \div u
        r == n % u
    IN  IF 2 * r > u \/ (2 * r = u /\ q % 2 = 1) THEN (q + 1) * u ELSE q * u

\* f32 addition
f32_add(a, b) == f32_round(a + b)

\* MissionControl::new
MissionControl_new ==
    [is_visible |-> FALSE,
     animation_progress |-> 0,
     desktop_spaces |->
        << [id |-> 0, windows |-> <<>>, wallpaper_color |-> <<30, 130, 180>>],
           [id |-> 1, windows |-> <<>>, wallpaper_color |-> <<180, 30, 130>>] >>,
     current_space |-> 0]

\* MissionControl::show
MissionControl_show(self) ==
    [self EXCEPT !.is_visible = TRUE, !.animation_progress = 0]

\* MissionControl::hide
MissionControl_hide(self) == [self EXCEPT !.is_visible = FALSE]

\* update without the clamp to 1.0
MissionControl_update_unclamped(self) ==
    IF self.is_visible /\ self.animation_progress < F32_ONE
    THEN [self EXCEPT !.animation_progress = f32_add(@, F32_STEP)]
    ELSE self

\* MissionControl::update
MissionControl_update(self) ==
    IF self.is_visible /\ self.animation_progress < F32_ONE
    THEN LET stepped == f32_add(self.animation_progress, F32_STEP)
         IN  [self EXCEPT !.animation_progress =
                             IF stepped > F32_ONE THEN F32_ONE ELSE stepped]
    ELSE self

\* switch_space that cycles through the spaces
switch_space_wraps(self, direction) ==
    IF direction > 0
    THEN [self EXCEPT !.current_space = (@ + 1) % Len(self.desktop_spaces)]
    ELSE IF direction < 0
         THEN [self EXCEPT !.current_space =
                 IF @ = 0 THEN Len(self.desktop_spaces) - 1 ELSE @ - 1]
         ELSE self

\* MissionControl::switch_space
switch_space(self, direction) ==
    IF direction > 0 /\ self.current_space < Len(self.desktop_spaces) - 1
    THEN [self EXCEPT !.current_space = @ + 1]
    ELSE IF direction < 0 /\ self.current_space > 0
         THEN [self EXCEPT !.current_space = @ - 1]
         ELSE self

\* MissionControl::new(); calls counts the update() calls received while
\* visible since the last show()
InitMC ==
    /\ NoWindowManager
    /\ animation = None
    /\ window_animation = None
    /\ notifications = None
    /\ spotlight = None
    /\ desktop = None
    /\ pc = None
    /\ log = None
    /\ mission_control = MissionControl_new
    /\ calls = 0
    /\ last = Call("MissionControl::new", <<>>, <<>>)
    /\ old = MissionControl_new

mcOthers ==
    <<wmVars, animation, window_animation, notifications, spotlight,
      desktop, pc, log>>

MissionControlShow ==
    /\ mission_control # None
    /\ mission_control' = MissionControl_show(mission_control)
    /\ calls' = 0
    /\ last' = Call("MissionControl::show", <<>>, <<>>)
    /\ old' = mission_control
    /\ UNCHANGED mcOthers

MissionControlHide ==
    /\ mission_control # None
    /\ mission_control' = MissionControl_hide(mission_control)
    /\ last' = Call("MissionControl::hide", <<>>, <<>>)
    /\ old' = mission_control
    /\ UNCHANGED <<mcOthers, calls>>

MissionControlUpdate ==
    /\ mission_control # None
    /\ calls < MaxProgressTicks
    /\ mission_control' = MissionControl_update(mission_control)
    /\ calls' = IF mission_control.is_visible THEN calls + 1 ELSE calls
    /\ last' = Call("MissionControl::update", <<>>, <<>>)
    /\ old' = mission_control
    /\ UNCHANGED mcOthers

SwitchSpace ==
    /\ mission_control # None
    /\ \E direction \in Directions :
         /\ mission_control' = switch_space(mission_control, direction)
         /\ last' = Call("switch_space", <<direction>>, <<>>)
    /\ old' = mission_control
    /\ UNCHANGED <<mcOthers, calls>>

NextMC ==
    \/ MissionControlShow
    \/ MissionControlHide
    \/ MissionControlUpdate
    \/ SwitchSpace

SpecMC == InitMC /\ [][NextMC]_vars

\* C22: switch_space backwards at space 0 and forwards at the last space
\* leaves current_space where it is, any other switch_space with a non-zero
\* direction moves it by exactly one, and current_space is always a valid
\* index of desktop_spaces.
C22_SwitchSpaceClamps ==
    /\ mission_control.current_space \in 0 .. Len(mission_control.desktop_spaces) - 1
    /\ last.op = "switch_space"
       => LET direction == last.args[1]
              lastIndex == Len(old.desktop_spaces) - 1
              moved(by) == mission_control =
                             [old EXCEPT !.current_space = @ + by]
          IN  /\ (direction < 0 /\ old.current_space = 0) => moved(0)
              /\ (direction > 0 /\ old.current_space = lastIndex) => moved(0)
              /\ (direction < 0 /\ old.current_space > 0) => moved(-1)
              /\ (direction > 0 /\ old.current_space < lastIndex) => moved(1)

\* switch_space forwards at the last space.
C22_Witness ==
    /\ last.op = "switch_space"
    /\ last.args[1] > 0
    /\ old.current_space = Len(old.desktop_spaces) - 1
    /\ mission_control.current_space = old.current_space

\* The number of update() calls after which 0.05 has been added up to 1.0.
PROGRESS_STEPS == 20

\* C23: animation_progress is within [0, 1] in every state.  update() adds
\* one step of 0.05 (as exactly as an f32 can) only while the overlay is
\* visible and never goes past 1.0, so that 20 updates while visible reach
\* 1.0 and later ones stay there; update() while hidden and hide() leave it
\* unchanged, and show() resets it to 0.
C23_ProgressWithinUnitInterval ==
    /\ mission_control.animation_progress \in 0 .. F32_ONE
    /\ calls >= PROGRESS_STEPS => mission_control.animation_progress = F32_ONE
    /\ calls < PROGRESS_STEPS => mission_control.animation_progress < F32_ONE
    /\ last.op = "MissionControl::update"
       => IF old.is_visible /\ old.animation_progress < F32_ONE
          THEN LET exact == old.animation_progress + F32_STEP
               IN  /\ mission_control.animation_progress > old.animation_progress
                   /\ \/ mission_control.animation_progress = F32_ONE
                      \/ mission_control.animation_progress \in exact - 16 .. exact + 16
                   /\ mission_control =
                        [old EXCEPT !.animation_progress =
                                       mission_control.animation_progress]
          ELSE mission_control = old
    /\ last.op = "MissionControl::hide"
       => mission_control = [old EXCEPT !.is_visible = FALSE]
    /\ last.op = "MissionControl::show"
       => mission_control = [old EXCEPT !.is_visible = TRUE, !.animation_progress = 0]

\* The twentieth update() after show(): the sum passes 1.0 and is set to 1.0.
C23_Witness ==
    /\ last.op = "MissionControl::update"
    /\ calls = PROGRESS_STEPS
    /\ old.is_visible
    /\ old.animation_progress + F32_STEP > F32_ONE
    /\ mission_control.animation_progress = F32_ONE

(***************************************************************************)
(* The Desktop (desktop.rs) and the main loop (main.rs).  The pointer      *)
(* position, which update() derives from time_counter, and the constant    *)
(* geometry fields are left out; the pointer is drawn wherever it is.      *)
(***************************************************************************)

\* The largest time_counter: the last scripted event is at 660.
MaxFrames == 661

\* time_counter is a u32.  A u32 is held as its 32-bit pattern read in two's
\* complement: a value below 2^31 is itself, a value v from 2^31 on is
\* v - 2^32, so that u32::MAX is -1 and equality of values is equality of
\* patterns.
U32_MAX == -1
I32_MAX == 2147483647

\* u32 `+ 1` without overflow checks: u32::MAX wraps to 0.
u32_wrapping_inc(t) == IF t = I32_MAX THEN (-I32_MAX) - 1 ELSE t + 1

\* u32 `+ 1` with overflow checks panics exactly at u32::MAX.
u32_inc_overflows(t) == t = U32_MAX

\* The Desktop as one record.
Desk ==
    [window_manager |-> Self,
     notification_center |-> notifications,
     spotlight |-> spotlight,
     mission_control |-> mission_control,
     time_counter |-> desktop.time_counter,
     show_about_dialog |-> desktop.show_about_dialog]

\* Desktop::new
Desktop_new ==
    [window_manager |-> WindowManager_new,
     notification_center |-> <<>>,
     spotlight |-> Spotlight_new,
     mission_control |-> MissionControl_new,
     time_counter |-> 0,
     show_about_dialog |-> FALSE]

\* The windows built by create_sample_windows, as handed to add_window.
SampleWindows ==
    << [Window_new("Finder", 80, 80, 500, 350) EXCEPT !.is_focused = TRUE],
       Window_new("Terminal - zsh - 80x24", 200, 120, 450, 300),
       Window_new("System Preferences", 150, 200, 400, 350),
       Window_new("Safari - RustOS Documentation", 120, 60, 520, 400) >>

\* Desktop::create_sample_windows
create_sample_windows(self) ==
    [self EXCEPT !.window_manager =
        add_window(add_window(add_window(add_window(@,
            SampleWindows[1]), SampleWindows[2]), SampleWindows[3]), SampleWindows[4])]

\* init pushing the starter notifications without the stacking offset
Desktop_init_unstacked(self) ==
    [create_sample_windows(self) EXCEPT !.notification_center =
        @ \o << Notification_new("Welcome to RustOS",
                                 "macOS-inspired operating system"),
                Notification_new("System Ready",
                                 "All services loaded successfully") >>]

\* Desktop::init
Desktop_init(self) ==
    LET s1 == create_sample_windows(self)
        s2 == [s1 EXCEPT !.notification_center =
                  show_notification(@, "Welcome to RustOS",
                                    "macOS-inspired operating system")]
    IN  [s2 EXCEPT !.notification_center =
            show_notification(@, "System Ready",
                              "All services loaded successfully")]

\* WindowManager::needs_redraw
needs_redraw(self) == FALSE

\* MissionControl::draw: what it emits
MissionControl_draw(self) ==
    IF ~self.is_visible THEN <<>> ELSE << <<"mission_control">> >>

\* Spotlight::draw: what it emits
Spotlight_draw(self) ==
    IF ~self.is_visible THEN <<>> ELSE << <<"spotlight">> >>

\* The layers of a draw pass over the desktop itself, in the order of
\* Desktop::draw: d is the result of draw_all.
DesktopLayers(self, d) ==
    LET shown == NotificationCenter_draw(self.notification_center)
    IN  [k \in 1 .. Len(d.emitted) |-> <<"window", d.emitted[k]>>]
        \o << <<"menu_bar">>, <<"dock">> >>
        \o Spotlight_draw(self.spotlight)
        \o [k \in 1 .. Len(shown) |-> <<"notification", k - 1>>]
        \o (IF self.show_about_dialog THEN << <<"about_dialog">> >> ELSE <<>>)
        \o << <<"cursor">> >>

\* Desktop::draw going on to the desktop after Mission Control
Desktop_draw_no_return(self) ==
    LET d == draw_all(self.window_manager)
    IN  [self |-> [self EXCEPT !.window_manager = d.self],
         emitted |-> << <<"wallpaper">> >>
                     \o MissionControl_draw(self.mission_control)
                     \o DesktopLayers(self, d)]

\* Desktop::draw with the about dialog drawn before Spotlight
Desktop_draw_dialog_first(self) ==
    IF self.mission_control.is_visible
    THEN [self |-> self,
          emitted |-> << <<"wallpaper">> >> \o MissionControl_draw(self.mission_control)]
    ELSE LET d == draw_all(self.window_manager)
             shown == NotificationCenter_draw(self.notification_center)
         IN  [self |-> [self EXCEPT !.window_manager = d.self],
              emitted |->
                 << <<"wallpaper">> >>
                 \o [k \in 1 .. Len(d.emitted) |-> <<"window", d.emitted[k]>>]
                 \o << <<"menu_bar">>, <<"dock">> >>
                 \o (IF self.show_about_dialog THEN << <<"about_dialog">> >> ELSE <<>>)
                 \o Spotlight_draw(self.spotlight)
                 \o [k \in 1 .. Len(shown) |-> <<"notification", k - 1>>]
                 \o << <<"cursor">> >>]

\* Desktop::draw: the state after the call and the layers it emits, in order
Desktop_draw(self) ==
    IF self.mission_control.is_visible
    THEN [self |-> self,
          emitted |-> << <<"wallpaper">> >> \o MissionControl_draw(self.mission_control)]
    ELSE LET d == draw_all(self.window_manager)
         IN  [self |-> [self EXCEPT !.window_manager = d.self],
              emitted |-> << <<"wallpaper">> >> \o DesktopLayers(self, d)]

\* Desktop::update: the state after the call and the calls it makes, in order.
\* The increment of time_counter is the one of a build without overflow
\* checks; a build with them panics where u32_inc_overflows holds.
Desktop_update(self) ==
    LET s1 == [self EXCEPT !.time_counter = u32_wrapping_inc(@)]
        s2 == [s1 EXCEPT !.mission_control = MissionControl_update(@)]
        s3 == [s2 EXCEPT !.notification_center = NotificationCenter_update(@)]
        s4 == IF s3.time_counter = 300
              THEN [s3 EXCEPT !.notification_center =
                       show_notification(@, "Memory Update",
                                         "Available: 847MB of 1024MB")]
              ELSE s3
        s5 == IF s4.time_counter = 600
              THEN [s4 EXCEPT !.notification_center =
                       show_notification(@, "Network Status",
                                         "Connected to RustOS Network")]
              ELSE s4
        redraw == needs_redraw(s5.window_manager)
    IN  [self |-> IF redraw THEN Desktop_draw(s5).self ELSE s5,
         calls |-> <<"MissionControl::update", "NotificationCenter::update">>
                   \o (IF s3.time_counter = 300 \/ s4.time_counter = 600
                       THEN <<"show_notification">> ELSE <<>>)
                   \o (IF redraw THEN <<"Desktop::draw">> ELSE <<>>)]

\* handle_events that never hides Spotlight at frame 240
handle_events_keeps_spotlight(self) ==
    LET t == self.time_counter
        s1 == IF t = 180
              THEN [self EXCEPT !.spotlight =
                      add_character(add_character(add_character(
                          Spotlight_show(@), "t"), "e"), "r")]
              ELSE self
        s3 == IF t = 420
              THEN [s1 EXCEPT !.mission_control = MissionControl_show(@)] ELSE s1
        s4 == IF t = 480
              THEN [s3 EXCEPT !.mission_control = MissionControl_hide(@)] ELSE s3
        s5 == IF t = 540 THEN [s4 EXCEPT !.show_about_dialog = TRUE] ELSE s4
        s6 == IF t = 660 THEN [s5 EXCEPT !.show_about_dialog = FALSE] ELSE s5
    IN  [self |-> s6,
         calls |->
            (IF t = 180
             THEN <<"Spotlight::show", "add_character", "add_character", "add_character">>
             ELSE <<>>)
            \o (IF t = 420 THEN <<"MissionControl::show">> ELSE <<>>)
            \o (IF t = 480 THEN <<"MissionControl::hide">> ELSE <<>>)
            \o (IF t = 540 THEN <<"show_about_dialog = true">> ELSE <<>>)
            \o (IF t = 660 THEN <<"show_about_dialog = false">> ELSE <<>>)]

\* Desktop::handle_events: the state after the call and the calls it makes
handle_events(self) ==
    LET t == self.time_counter
        s1 == IF t = 180
              THEN [self EXCEPT !.spotlight =
                      add_character(add_character(add_character(
                          Spotlight_show(@), "t"), "e"), "r")]
              ELSE self
        s2 == IF t = 240 THEN [s1 EXCEPT !.spotlight = Spotlight_hide(@)] ELSE s1
        s3 == IF t = 420
              THEN [s2 EXCEPT !.mission_control = MissionControl_show(@)] ELSE s2
        s4 == IF t = 480
              THEN [s3 EXCEPT !.mission_control = MissionControl_hide(@)] ELSE s3
        s5 == IF t = 540 THEN [s4 EXCEPT !.show_about_dialog = TRUE] ELSE s4
        s6 == IF t = 660 THEN [s5 EXCEPT !.show_about_dialog = FALSE] ELSE s5
    IN  [self |-> s6,
         calls |->
            (IF t = 180
             THEN <<"Spotlight::show", "add_character", "add_character", "add_character">>
             ELSE <<>>)
            \o (IF t = 240 THEN <<"Spotlight::hide">> ELSE <<>>)
            \o (IF t = 420 THEN <<"MissionControl::show">> ELSE <<>>)
            \o (IF t = 480 THEN <<"MissionControl::hide">> ELSE <<>>)
            \o (IF t = 540 THEN <<"show_about_dialog = true">> ELSE <<>>)
            \o (IF t = 660 THEN <<"show_about_dialog = false">> ELSE <<>>)]

\* The Desktop d written to the variables.
IsDesk(d) ==
    /\ windows = d.window_manager.windows
    /\ focused_window = d.window_manager.focused_window
    /\ next_window_id = d.window_manager.next_window_id
    /\ panicked = d.window_manager.panicked
    /\ notifications = d.notification_center
    /\ spotlight = d.spotlight
    /\ mission_control = d.mission_control
    /\ desktop = [time_counter |-> d.time_counter,
                  show_about_dialog |-> d.show_about_dialog]

StoreDesk(d) ==
    /\ windows' = d.window_manager.windows
    /\ focused_window' = d.window_manager.focused_window
    /\ next_window_id' = d.window_manager.next_window_id
    /\ panicked' = d.window_manager.panicked
    /\ notifications' = d.notification_center
    /\ spotlight' = d.spotlight
    /\ mission_control' = d.mission_control
    /\ desktop' = [time_counter |-> d.time_counter,
                   show_about_dialog |-> d.show_about_dialog]
    /\ old' = Desk
    /\ UNCHANGED <<animation, window_animation, calls>>

\* Desktop::new(); the methods of the Desktop are then called in any order,
\* init() once and first.
InitDesk ==
    /\ IsDesk(Desktop_new)
    /\ animation = None
    /\ window_animation = None
    /\ calls = 0
    /\ pc = None
    /\ log = None
    /\ last = Call("Desktop::new", <<>>, <<>>)
    /\ old = Desktop_new

DesktopInit ==
    /\ last.op = "Desktop::new"
    /\ StoreDesk(Desktop_init(Desk))
    /\ last' = Call("Desktop::init", <<>>, <<>>)
    /\ UNCHANGED <<pc, log>>

DesktopDraw ==
    /\ last.op # "Desktop::new"
    /\ \E r \in {Desktop_draw(Desk)} :
         /\ StoreDesk(r.self)
         /\ last' = Call("Desktop::draw", <<>>, r.emitted)
    /\ UNCHANGED <<pc, log>>

DesktopUpdate ==
    /\ last.op # "Desktop::new"
    /\ desktop.time_counter < MaxFrames
    /\ \E r \in {Desktop_update(Desk)} :
         /\ StoreDesk(r.self)
         /\ last' = Call("Desktop::update", <<>>, r.calls)
    /\ UNCHANGED <<pc, log>>

DesktopHandleEvents ==
    /\ last.op # "Desktop::new"
    /\ \E r \in {handle_events(Desk)} :
         /\ StoreDesk(r.self)
         /\ last' = Call("Desktop::handle_events", <<>>, r.calls)
    /\ UNCHANGED <<pc, log>>

NextDesk ==
    \/ DesktopInit
    \/ DesktopDraw
    \/ DesktopUpdate
    \/ DesktopHandleEvents

SpecDesk == InitDesk /\ [][NextDesk]_vars

\* The positions in the layer sequence e of the layers of the given kind.
LayersOf(e, kind) == { k \in 1 .. Len(e) : e[k][1] = kind }

\* Every layer of kind a comes before every layer of kind b.
Before(e, a, b) == \A i \in LayersOf(e, a), j \in LayersOf(e, b) : i < j

\* C24: a Desktop::draw pass that finds Mission Control visible emits the
\* background and the Mission Control view and nothing else: no window, no
\* menu bar, no dock.
C24_MissionControlReplacesDesktop ==
    (last.op = "Desktop::draw" /\ old.mission_control.is_visible)
    => /\ last.ret = << <<"wallpaper">>, <<"mission_control">> >>
       /\ LayersOf(last.ret, "window") = {}
       /\ LayersOf(last.ret, "menu_bar") = {}
       /\ LayersOf(last.ret, "dock") = {}

\* A draw pass with Mission Control visible over four open windows, a queued
\* notification and the about dialog.
C24_Witness ==
    /\ last.op = "Desktop::draw"
    /\ old.mission_control.is_visible
    /\ Len(windows) = 4
    /\ notifications # <<>>
    /\ desktop.show_about_dialog
    /\ Len(last.ret) = 2

\* C25: in a draw pass with Mission Control hidden and both Spotlight and
\* the about dialog visible, the windows, the menu bar and the dock come
\* first, then Spotlight, and the about dialog comes after Spotlight.
C25_ModalAboveSearch ==
    ( /\ last.op = "Desktop::draw"
      /\ ~old.mission_control.is_visible
      /\ old.spotlight.is_visible
      /\ old.show_about_dialog )
    => LET e == last.ret
       IN  /\ Cardinality(LayersOf(e, "spotlight")) = 1
           /\ Cardinality(LayersOf(e, "about_dialog")) = 1
           /\ Cardinality(LayersOf(e, "menu_bar")) = 1
           /\ Cardinality(LayersOf(e, "dock")) = 1
           /\ Cardinality(LayersOf(e, "window")) = Cardinality(Open(windows))
           /\ Before(e, "window", "spotlight")
           /\ Before(e, "menu_bar", "spotlight")
           /\ Before(e, "dock", "spotlight")
           /\ Before(e, "spotlight", "about_dialog")

\* Such a draw pass, over the four sample windows.
C25_Witness ==
    /\ last.op = "Desktop::draw"
    /\ ~old.mission_control.is_visible
    /\ old.spotlight.is_visible
    /\ old.show_about_dialog
    /\ Cardinality(LayersOf(last.ret, "window")) = 4
    /\ LayersOf(last.ret, "about_dialog") # {}

\* C26: a draw pass with Mission Control hidden emits background, windows,
\* menu bar and dock, Spotlight and about dialog, notifications, pointer, in
\* this order: the notifications come after every visible overlay and only
\* the pointer comes after the notifications.
C26_FixedLayerOrder ==
    (last.op = "Desktop::draw" /\ ~old.mission_control.is_visible)
    => LET e == last.ret
       IN  /\ e[1] = <<"wallpaper">>
           /\ e[Len(e)] = <<"cursor">>
           /\ Before(e, "window", "menu_bar")
           /\ Before(e, "menu_bar", "dock")
           /\ Before(e, "dock", "spotlight")
           /\ Before(e, "dock", "about_dialog")
           /\ Before(e, "spotlight", "notification")
           /\ Before(e, "about_dialog", "notification")
           /\ \A k \in LayersOf(e, "notification"), j \in 1 .. Len(e) :
                j > k => e[j][1] \in {"notification", "cursor"}

InitMain ==
    /\ IsDesk(Desktop_new)
    /\ animation = None
    /\ window_animation = None
    /\ calls = 0
    /\ pc = "init"
    /\ log = <<>>
    /\ last = Call("Desktop::new", <<>>, <<>>)
    /\ old = Desktop_new

\* desktop.init(&mut graphics)
StartInit ==
    /\ pc = "init"
    /\ StoreDesk(Desktop_init(Desk))
    /\ last' = Call("Desktop::init", <<>>, <<>>)
    /\ pc' = "draw"
    /\ UNCHANGED log

\* desktop.draw(&mut graphics), before the loop
StartDraw ==
    /\ pc = "draw"
    /\ \E r \in {Desktop_draw(Desk)} :
         /\ StoreDesk(r.self)
         /\ last' = Call("Desktop::draw", <<>>, r.emitted)
    /\ pc' = "handle_events"
    /\ UNCHANGED log

\* desktop.handle_events(), the first call of an iteration
LoopHandleEvents ==
    /\ pc = "handle_events"
    /\ desktop.time_counter < MaxFrames
    /\ \E r \in {handle_events(Desk)} :
         /\ StoreDesk(r.self)
         /\ last' = Call("Desktop::handle_events", <<>>, r.calls)
         /\ log' = <<"Desktop::handle_events">> \o r.calls
    /\ pc' = "update"

\* desktop.update(&mut graphics), the last call of an iteration
LoopUpdate ==
    /\ pc = "update"
    /\ \E r \in {Desktop_update(Desk)} :
         /\ StoreDesk(r.self)
         /\ last' = Call("Desktop::update", <<>>, r.calls)
         /\ log' = log \o <<"Desktop::update">> \o r.calls
    /\ pc' = "handle_events"

NextMain ==
    \/ StartInit
    \/ StartDraw
    \/ LoopHandleEvents
    \/ LoopUpdate

SpecMain == InitMain /\ [][NextMain]_vars

\* The positions of a call in the log of an iteration.
At(name) == { k \in 1 .. Len(log) : log[k] = name }

\* An iteration of the loop has just ended.
IterationDone == pc = "handle_events" /\ log # <<>>

\* The calls by which handle_events changes the visibility of an overlay.
Transitions ==
    {"Spotlight::show", "Spotlight::hide", "MissionControl::show",
     "MissionControl::hide", "show_about_dialog = true", "show_about_dialog = false"}

\* C28: every iteration of the main loop is one update followed by exactly
\* one draw pass, and nothing of the iteration changes the state after
\* that draw.
C28_OneDrawPerFrame ==
    IterationDone
    => /\ Cardinality(At("Desktop::update")) = 1
       /\ Cardinality(At("Desktop::draw")) = 1
       /\ \A u \in At("Desktop::update"), d \in At("Desktop::draw") :
            /\ u < d
            /\ \A k \in 1 .. Len(log) : k > d => log[k] = "Desktop::draw"

\* C29: every iteration advances the overlay animation first
\* (MissionControl::update), then applies the scripted transitions
\* (handle_events), then ages the notifications
\* (NotificationCenter::update).
C29_DocumentedUpdateOrder ==
    IterationDone
    => \A m \in At("MissionControl::update"),
          h \in At("Desktop::handle_events"),
          n \in At("NotificationCenter::update") :
         /\ m < h
         /\ h < n
         /\ \A k \in 1 .. Len(log) : log[k] \in Transitions => (m < k /\ k < n)

(***************************************************************************)
(* An overlay: a Spotlight or a Mission Control.  The two share no state,  *)
(* so each is exercised on its own, by every method in any order.          *)
(***************************************************************************)

InitOverlays == InitSpot \/ InitMC

NextOverlays == NextSpot \/ NextMC

SpecOverlays == InitOverlays /\ [][NextOverlays]_vars

\* C30: add_character, backspace and move_selection on a hidden Spotlight,
\* and switch_space and update on a hidden Mission Control, change nothing
\* of the overlay (query, results, selected_index, current_space,
\* animation_progress).
C30_HiddenOverlayOpsAreNoOps ==
    /\ ( /\ last.op \in {"add_character", "backspace", "move_selection"}
         /\ ~old.is_visible )
       => spotlight = old
    /\ ( /\ last.op \in {"switch_space", "MissionControl::update"}
         /\ ~old.is_visible )
       => mission_control = old

\* C31: draw_all reads the window stack and changes nothing: the windows,
\* with their geometry and their flags (is_focused too), and the focus index
\* are after the call what they were before it.
C31_DrawAllIsPureRead ==
    last.op = "draw_all"
    => /\ windows = old.windows
       /\ focused_window = old.focused_window
       /\ next_window_id = old.next_window_id

\* The rows of the screen, the menu bar band and the dock band.
SCREEN_WIDTH == 640
SCREEN_HEIGHT == 480
MENU_BAR_HEIGHT == 24
DOCK_HEIGHT == 60
DOCK_Y == SCREEN_HEIGHT - DOCK_HEIGHT

\* C32: when maximize_window(i) turns is_maximized on, window i spans the
\* full width and lies between the menu bar band (rows 0..23) and the dock
\* band (rows 420..479), overlapping neither.
C32_MaximizedRectangleAvoidsBands ==
    ( /\ last.op = "maximize_window"
      /\ Arg < Len(old.windows)
      /\ windows[Arg + 1].is_maximized )
    => LET w == windows[Arg + 1]
       IN  /\ w.x = 0
           /\ w.width = SCREEN_WIDTH
           /\ w.y >= MENU_BAR_HEIGHT
           /\ w.y + w.height <= DOCK_Y

\* C33: update() removes only the notifications whose age passes their
\* lifetime; the others keep their order and their vertical offset, and
\* their slide-in animation goes on from where it was: same parameters,
\* elapsed ticks one more (or unchanged once complete), completion kept.
C33_SurvivorsUndisturbed ==
    last.op = "NotificationCenter::update"
    => LET kept == NotYetDue(old)
       IN  /\ Len(notifications) = Len(kept)
           /\ \A j \in 1 .. Len(notifications) :
                LET n == notifications[j]
                    o == kept[j]
                IN  /\ n.title = o.title /\ n.message = o.message
                    /\ n.y = o.y
                    /\ n.animation.start_value = o.animation.start_value
                    /\ n.animation.end_value = o.animation.end_value
                    /\ n.animation.duration = o.animation.duration
                    /\ n.animation.easing = o.animation.easing
                    /\ n.animation.current_time =
                         IF o.animation.is_complete
                         THEN o.animation.current_time
                         ELSE o.animation.current_time + 1
                    /\ o.animation.is_complete => n.animation.is_complete

\* An update() that removes the first notification while the slide-in of
\* one enqueued just before it is at its first tick; the one in between has
\* long finished sliding in.
C33_Witness ==
    /\ last.op = "NotificationCenter::update"
    /\ Len(old) = 3
    /\ Len(notifications) = 2
    /\ old[2].animation.is_complete /\ notifications[1].animation.is_complete
    /\ old[3].animation.current_time = 0
    /\ notifications[2].animation.current_time = 1
    /\ ~notifications[2].animation.is_complete

StackOps ==
    {"add_window", "focus_window", "close_window", "minimize_window",
     "maximize_window"}

\* C36: after every add_window, focus_window, close_window, minimize_window
\* and maximize_window, window i's is_focused flag is true exactly when
\* focused_window is Some(i).
C36_FlagAgreesWithFocusIndex ==
    last.op \in StackOps
    => \A i \in 0 .. Len(windows) - 1 :
         windows[i + 1].is_focused <=> (focused_window = Some(i))

\* C37: whenever the focused window is not minimized and contains the point,
\* get_window_at_point returns the focused window's index, the window that
\* draw_all paints last.
C37_HitTestAgreesWithTopmostDrawn ==
    ( /\ last.op = "get_window_at_point"
      /\ focused_window # None
      /\ InRange(windows, focused_window[1])
      /\ ~windows[focused_window[1] + 1].is_minimized
      /\ Contains(windows[focused_window[1] + 1], last.args[1], last.args[2]) )
    => last.ret = focused_window

\* C39: in every state, if some window of the stack is not minimized then
\* focused_window is not None.
C39_FocusEmptyOnlyIfNothingOpen ==
    Open(windows) # {} => focused_window # None

\* A stack with an open window, after the focus has been handed over by
\* minimize_window and by close_window.
C39_Witness ==
    /\ last.op = "close_window"
    /\ Len(windows) = 1
    /\ Open(windows) # {}
    /\ old.windows[1].is_minimized
    /\ focused_window = Some(0)

\* The overlays visible in the current state.
VisibleOverlays ==
    {o \in {"spotlight", "mission_control", "about_dialog"} :
        \/ o = "spotlight" /\ spotlight.is_visible
        \/ o = "mission_control" /\ mission_control.is_visible
        \/ o = "about_dialog" /\ desktop.show_about_dialog}

\* C35: in the scripted run (init, then handle_events followed by update,
\* repeated) at most one of Spotlight, Mission Control and the About dialog is
\* visible in every state.
C35_AtMostOneOverlayVisible ==
    Cardinality(VisibleOverlays) <= 1

\* The About dialog alone is visible, after Spotlight was shown with its
\* scripted query and hidden, and Mission Control was shown, ran to full
\* progress and was hidden.
C35_Witness ==
    /\ VisibleOverlays = {"about_dialog"}
    /\ spotlight.search_query = <<"t", "e", "r">>
    /\ mission_control.animation_progress = F32_ONE
    /\ desktop.time_counter > 540

\* C38: after any interleaving of show_notification and update calls, no two
\* notifications of the queue have the same vertical offset.
C38_OffsetsAreDistinct ==
    \A j, k \in 1 .. Len(notifications) :
        j # k => notifications[j].y # notifications[k].y

(***************************************************************************)
(* The unbounded run of _start.  Once the script is over (no event of      *)
(* handle_events and no enqueue of update lies ahead of the counter, the   *)
(* queue is empty and Mission Control is hidden) an iteration of the loop  *)
(* changes nothing but time_counter, so the iterations up to the one that  *)
(* leaves the counter at u32::MAX are taken in one step.  What the         *)
(* increment of u32::MAX does depends on the build: it panics with         *)
(* overflow checks (panic handler: print, then hlt_loop) and wraps to 0    *)
(* without them.                                                           *)
(***************************************************************************)

\* The last frame at which handle_events or update compares time_counter.
LAST_SCRIPTED_FRAME == 660

\* Every iteration from here to u32::MAX changes only time_counter.
ScriptOver ==
    /\ desktop.time_counter > LAST_SCRIPTED_FRAME
    /\ notifications = <<>>
    /\ ~mission_control.is_visible

\* desktop.handle_events() of an iteration that is not skipped
RunHandleEvents ==
    /\ pc = "handle_events"
    /\ ~ScriptOver
    /\ \E r \in {handle_events(Desk)} :
         /\ StoreDesk(r.self)
         /\ last' = Call("Desktop::handle_events", <<>>, r.calls)
         /\ log' = <<"Desktop::handle_events">> \o r.calls
    /\ pc' = "update"

\* desktop.update(&mut graphics); at u32::MAX, in a build that wraps
RunUpdate ==
    /\ pc = "update"
    /\ \E r \in {Desktop_update(Desk)} :
         /\ StoreDesk(r.self)
         /\ last' = Call("Desktop::update", <<>>, r.calls)
         /\ log' = log \o <<"Desktop::update">> \o r.calls
    /\ pc' = "handle_events"

\* desktop.update(&mut graphics) at u32::MAX in a build with overflow checks:
\* `self.time_counter += 1` panics and the panic handler halts.
RunUpdatePanics ==
    /\ pc = "update"
    /\ u32_inc_overflows(desktop.time_counter)
    /\ pc' = "panic"
    /\ last' = Call("Desktop::update", <<>>, <<"panic">>)
    /\ old' = Desk
    /\ log' = log \o <<"Desktop::update">>
    /\ UNCHANGED <<wmVars, animation, window_animation, notifications,
                   spotlight, calls, mission_control, desktop>>

\* The iterations after the script, up to the one whose update() leaves
\* time_counter at u32::MAX: each calls handle_events(), which does nothing,
\* and update(), which adds 1 and updates a hidden Mission Control and an
\* empty queue.
RunIdleIterations ==
    /\ pc = "handle_events"
    /\ ScriptOver
    /\ desktop' = [desktop EXCEPT !.time_counter = U32_MAX]
    /\ old' = [Desk EXCEPT !.time_counter = U32_MAX - 1]
    /\ last' = Call("Desktop::update", <<>>,
                    <<"MissionControl::update", "NotificationCenter::update">>)
    /\ log' = <<"Desktop::handle_events", "Desktop::update",
                "MissionControl::update", "NotificationCenter::update">>
    /\ UNCHANGED <<wmVars, animation, window_animation, notifications,
                   spotlight, calls, mission_control, pc>>

NextRun ==
    \/ StartInit
    \/ StartDraw
    \/ RunHandleEvents
    \/ RunUpdate
    \/ RunUpdatePanics
    \/ RunIdleIterations

\* The positions of _start.
Positions == {"init", "draw", "handle_events", "update", "panic"}

\* _start moves on to another position.  Every step of NextRun does, but
\* RunIdleIterations, which is followed by RunHandleEvents; only the panic
\* handler's hlt_loop is never left.
Advance == pc # "panic" /\ pc' \in Positions \ {pc}

\* _start is sequential code without blocking calls: until it halts in the
\* panic handler, it keeps moving on.
SpecRun == InitMain /\ [][NextRun]_vars /\ WF_pc(Advance)

\* C40: in the scripted run every notification enqueued is eventually
\* removed, and from some point on the queue is empty for the rest of the
\* run: no scripted enqueue fires a second time.
C40_QueueEmptyForGood ==
    <>[](notifications = <<>>)

====
